---- MODULE Spec2Model ----
(***************************************************************************)
(* The multi-tenant todo backend (src/backend/src/main.rs): four axum      *)
(* handlers over one MongoDB collection, scoped by the x-user-id header.   *)
(***************************************************************************)
EXTENDS Integers, Sequences, FiniteSets, TLC

\* ------------------------------------------------------------- bounds
\* ObjectIds the driver generates in one run (documents ever inserted).
MaxItems == 2

\* ------------------------------------------------------------- constants
StatusOk == 200
StatusBadRequest == 400
StatusUnauthorized == 401
StatusNotFound == 404
StatusInternalServerError == 500
\* No HTTP response is written: the handler task panicked.
NoResponse == 0
\* An ObjectId is written as 24 hexadecimal characters.
ObjectIdHexLen == 24

\* ------------------------------------------------------------- inputs
\* The x-user-id header of a request: absent, present with bytes that are
\* not visible ASCII, or present with a (possibly empty) text.
AbsentHeader == [present |-> FALSE, ascii |-> FALSE, text |-> ""]
OpaqueHeader == [present |-> TRUE, ascii |-> FALSE, text |-> ""]
TextHeader(t) == [present |-> TRUE, ascii |-> TRUE, text |-> t]
UserTexts == {"", "alice", "bob"}
Headers == {AbsentHeader, OpaqueHeader} \cup {TextHeader(t) : t \in UserTexts}

Titles == {"", "milk"}

\* JSON bodies, as the object's fields: a create body with an extra "done",
\* and bodies without the field the handler's payload type requires.
NoBody == [none |-> TRUE]
CreateBodies ==
    {[title |-> t] : t \in Titles}
        \cup {[title |-> "milk", done |-> TRUE], [done |-> TRUE]}
UpdateBodies == {[done |-> TRUE], [done |-> FALSE], [title |-> "milk"]}

\* The statuses the Json extractor's rejection can carry.
JsonRejectionStatuses == {400, 422}

HexChars == <<"0", "1", "2", "3", "4", "5", "6", "7", "8", "9",
              "a", "b", "c", "d", "e", "f">>
UpperHexChars == <<"0", "1", "2", "3", "4", "5", "6", "7", "8", "9",
                   "A", "B", "C", "D", "E", "F">>

IsHexChar(c) == \E i \in 1..16 : HexChars[i] = c \/ UpperHexChars[i] = c
HexValue(c) == (CHOOSE i \in 1..16 : HexChars[i] = c \/ UpperHexChars[i] = c) - 1

RECURSIVE HexToNat(_)
HexToNat(s) ==
    IF s = <<>> THEN 0
    ELSE 16 * HexToNat(SubSeq(s, 1, Len(s) - 1)) + HexValue(s[Len(s)])

\* parse_str without its length check: any hexadecimal text is taken.
ParseStrAnyLength(s) ==
    IF \A i \in 1..Len(s) : IsHexChar(s[i])
    THEN [ok |-> TRUE, oid |-> HexToNat(s)]
    ELSE [ok |-> FALSE, oid |-> 0]

\* ObjectId::parse_str: exactly 24 hexadecimal characters, else an error.
ParseStr(s) ==
    IF Len(s) = ObjectIdHexLen /\ \A i \in 1..Len(s) : IsHexChar(s[i])
    THEN [ok |-> TRUE, oid |-> HexToNat(s)]
    ELSE [ok |-> FALSE, oid |-> 0]

RECURSIVE NatToHex(_, _)
NatToHex(n, len) ==
    IF len = 0 THEN <<>>
    ELSE Append(NatToHex(n \div 16, len - 1), HexChars[(n % 16) + 1])

\* The text a client sees for an ObjectId (lower-case hexadecimal).
ToHex(oid) == NatToHex(oid, ObjectIdHexLen)

\* Path identifiers a client may send: the text of every identifier the
\* driver can issue, a text one character short, and a text of the right
\* length with a non-hexadecimal character.
PathIds ==
    {ToHex(n) : n \in 1..MaxItems}
        \cup {SubSeq(ToHex(1), 1, ObjectIdHexLen - 1),
              [ToHex(1) EXCEPT ![1] = "g"]}

\* ------------------------------------------------------------- state
VARIABLES
    store,    \* the "todos" collection: ObjectId -> [user_id, title, done]
    issued,   \* how many ObjectIds the driver has generated
    alive,    \* the server process is running
    last,     \* the request being answered and its answer (NoAnswer between requests)
    journal,  \* what the clients have been told: id text -> [user_id, title, done]
    removed,  \* the id texts whose delete was answered 200
    tasks,    \* concurrent handler tasks: task -> its request and progress
    order     \* the tasks in the order their storage calls were executed

vars == <<store, issued, alive, last, journal, removed, tasks, order>>
taskVars == <<tasks, order>>
clientVars == <<journal, removed>>

\* ------------------------------------------------------------- storage
Doc(st, oid) ==
    [id |-> oid, user_id |-> st[oid].user_id, title |-> st[oid].title,
     done |-> st[oid].done]

\* find whose cursor is read once only: at most one document comes back.
FindFirst(st, user_id) ==
    LET own == {o \in DOMAIN st : st[o].user_id = user_id} IN
    {Doc(st, oid) : oid \in {o \in own : \A x \in own : o <= x}}

\* collection.find(doc!{"user_id": user_id}), drained through the cursor.
Find(st, user_id) ==
    {Doc(st, oid) : oid \in {o \in DOMAIN st : st[o].user_id = user_id}}

\* an _id that does not advance with the documents inserted.
NewObjectIdRepeated(n) == 1

\* the _id the driver adds to a document serialized without one.
NewObjectId(n) == n + 1

\* collection.insert_one(&todo_without_id)
InsertOne(st, oid, todo) ==
    [o \in DOMAIN st \cup {oid} |-> IF o = oid THEN todo ELSE st[o]]

\* a filter {"_id": oid} that leaves the owner out.
MatchingIdOnly(st, oid, user_id) == {o \in DOMAIN st : o = oid}

\* the documents a filter {"_id": oid, "user_id": user_id} matches.
Matching(st, oid, user_id) ==
    {o \in DOMAIN st : o = oid /\ st[o].user_id = user_id}

\* update_one reporting modified_count: a document already holding the value
\* counts as no match.
UpdateOneModified(st, oid, user_id, done) ==
    [store |-> [o \in DOMAIN st |->
                   IF o \in Matching(st, oid, user_id)
                   THEN [st[o] EXCEPT !.done = done] ELSE st[o]],
     matched_count |->
         Cardinality({o \in Matching(st, oid, user_id) : st[o].done # done})]

\* an update whose filter leaves the _id out: every item of the owner is set.
UpdateOneByOwner(st, oid, user_id, done) ==
    [store |-> [o \in DOMAIN st |->
                   IF st[o].user_id = user_id
                   THEN [st[o] EXCEPT !.done = done] ELSE st[o]],
     matched_count |-> Cardinality({o \in DOMAIN st : st[o].user_id = user_id})]

\* update_one with the upsert option: no match inserts the document.
UpdateOneUpsert(st, oid, user_id, done) ==
    IF Matching(st, oid, user_id) # {}
    THEN [store |-> [o \in DOMAIN st |->
                        IF o \in Matching(st, oid, user_id)
                        THEN [st[o] EXCEPT !.done = done] ELSE st[o]],
          matched_count |-> 1]
    ELSE [store |-> [o \in DOMAIN st \cup {oid} |->
                        IF o = oid
                        THEN [user_id |-> user_id, title |-> "", done |-> done]
                        ELSE st[o]],
          matched_count |-> 0]

\* collection.update_one(filter, {"$set": {"done": done}})
UpdateOne(st, oid, user_id, done) ==
    [store |-> [o \in DOMAIN st |->
                   IF o \in Matching(st, oid, user_id)
                   THEN [st[o] EXCEPT !.done = done] ELSE st[o]],
     matched_count |-> Cardinality(Matching(st, oid, user_id))]

\* collection.delete_one(filter)
DeleteOne(st, oid, user_id) ==
    [store |-> [o \in DOMAIN st \ Matching(st, oid, user_id) |-> st[o]],
     deleted_count |-> Cardinality(Matching(st, oid, user_id))]

\* ------------------------------------------------------------- extractors
\* CurrentUserId::from_request_parts
FromRequestParts(hdr) ==
    IF hdr.present /\ hdr.ascii
    THEN [ok |-> TRUE, user_id |-> hdr.text]
    ELSE [ok |-> FALSE, user_id |-> ""]

\* Json<NewTodo>: a JSON object with a text "title"; other fields are ignored.
NewTodo(body) ==
    IF "title" \in DOMAIN body
    THEN [ok |-> TRUE, title |-> body.title]
    ELSE [ok |-> FALSE, title |-> ""]

\* Json<UpdateTodoPayload>: a JSON object with a boolean "done".
UpdateTodoPayload(body) ==
    IF "done" \in DOMAIN body
    THEN [ok |-> TRUE, done |-> body.done]
    ELSE [ok |-> FALSE, done |-> FALSE]

\* ------------------------------------------------------------- responses
Answer(op, hdr, path, body, status, items, calls, err) ==
    [op |-> op, hdr |-> hdr, path |-> path, body |-> body, status |-> status,
     items |-> items, calls |-> calls, err |-> err]

\* Between requests: nothing is being answered.
NoAnswer == Answer("none", AbsentHeader, <<>>, NoBody, NoResponse, {}, 0, FALSE)

\* An .expect() on a storage error: the handler panics, no response is
\* written, and the process survives or not with the build's panic strategy.
Panics(op, hdr, path, body) ==
    /\ last' = Answer(op, hdr, path, body, NoResponse, {}, 1, TRUE)
    /\ alive' \in BOOLEAN
    /\ UNCHANGED <<store, issued, clientVars, taskVars>>

Rejects(op, hdr, path, body, status) ==
    /\ last' = Answer(op, hdr, path, body, status, {}, 0, FALSE)
    /\ UNCHANGED <<store, issued, alive, clientVars, taskVars>>

\* ------------------------------------------------------------- handlers
\* The Todo create_todo builds before the insert: no id, done forced false.
TodoWithoutId(user_id, payload) ==
    [user_id |-> user_id, title |-> payload.title, done |-> FALSE]

\* GET /todos
get_todos(hdr, fails) ==
    /\ alive
    /\ last = NoAnswer
    /\ LET user == FromRequestParts(hdr) IN
       IF ~user.ok THEN Rejects("list", hdr, <<>>, NoBody, StatusUnauthorized)
       ELSE IF fails THEN Panics("list", hdr, <<>>, NoBody)
       ELSE /\ last' = Answer("list", hdr, <<>>, NoBody, StatusOk,
                              Find(store, user.user_id), 1, FALSE)
            /\ UNCHANGED <<store, issued, alive, clientVars, taskVars>>

\* POST /todos
create_todo(hdr, body, rejection, fails) ==
    /\ alive
    /\ last = NoAnswer
    /\ LET user == FromRequestParts(hdr)
           payload == NewTodo(body)
       IN
       IF ~user.ok THEN Rejects("create", hdr, <<>>, body, StatusUnauthorized)
       ELSE IF ~payload.ok THEN Rejects("create", hdr, <<>>, body, rejection)
       ELSE IF fails THEN Panics("create", hdr, <<>>, body)
       ELSE /\ issued < MaxItems
            /\ LET todo_without_id == TodoWithoutId(user.user_id, payload)
                   oid == NewObjectId(issued)
               IN
               /\ store' = InsertOne(store, oid, todo_without_id)
               /\ issued' = issued + 1
               /\ last' = Answer("create", hdr, <<>>, body, StatusOk,
                                 {[id |-> oid,
                                   user_id |-> todo_without_id.user_id,
                                   title |-> todo_without_id.title,
                                   done |-> todo_without_id.done]}, 1, FALSE)
               /\ UNCHANGED <<alive, clientVars, taskVars>>

\* PUT /todos/{id}
update_todo(hdr, path, body, rejection, fails) ==
    /\ alive
    /\ last = NoAnswer
    /\ LET user == FromRequestParts(hdr)
           payload == UpdateTodoPayload(body)
           parsed == ParseStr(path)
       IN
       IF ~user.ok THEN Rejects("update", hdr, path, body, StatusUnauthorized)
       ELSE IF ~payload.ok THEN Rejects("update", hdr, path, body, rejection)
       ELSE IF ~parsed.ok THEN Rejects("update", hdr, path, body, StatusBadRequest)
       ELSE IF fails
       THEN /\ last' = Answer("update", hdr, path, body,
                              StatusInternalServerError, {}, 1, TRUE)
            /\ UNCHANGED <<store, issued, alive, clientVars, taskVars>>
       ELSE LET result == UpdateOne(store, parsed.oid, user.user_id, payload.done)
            IN
            /\ store' = result.store
            /\ last' = Answer("update", hdr, path, body,
                              IF result.matched_count = 1 THEN StatusOk
                              ELSE StatusNotFound, {}, 1, FALSE)
            /\ UNCHANGED <<issued, alive, clientVars, taskVars>>

\* DELETE /todos/{id}
delete_todo(hdr, path, fails) ==
    /\ alive
    /\ last = NoAnswer
    /\ LET user == FromRequestParts(hdr)
           parsed == ParseStr(path)
       IN
       IF ~user.ok THEN Rejects("delete", hdr, path, NoBody, StatusUnauthorized)
       ELSE IF ~parsed.ok THEN Rejects("delete", hdr, path, NoBody, StatusBadRequest)
       ELSE IF fails
       THEN /\ last' = Answer("delete", hdr, path, NoBody,
                              StatusInternalServerError, {}, 1, TRUE)
            /\ UNCHANGED <<store, issued, alive, clientVars, taskVars>>
       ELSE LET result == DeleteOne(store, parsed.oid, user.user_id)
            IN
            /\ store' = result.store
            /\ last' = Answer("delete", hdr, path, NoBody,
                              IF result.deleted_count = 1 THEN StatusOk
                              ELSE StatusNotFound, {}, 1, FALSE)
            /\ UNCHANGED <<issued, alive, clientVars, taskVars>>

\* ------------------------------------------------------------- clients
\* The response reaches the client (or the connection drops after a panic)
\* and the client notes what it was told; the next request can be served.
Complete ==
    /\ last # NoAnswer
    /\ journal' =
          IF last.op = "create" /\ last.status = StatusOk
          THEN LET new == {ToHex(it.id) : it \in last.items}
                   told(k) == CHOOSE it \in last.items : ToHex(it.id) = k
               IN [k \in DOMAIN journal \cup new |->
                      IF k \in new
                      THEN [user_id |-> told(k).user_id, title |-> told(k).title,
                            done |-> told(k).done]
                      ELSE journal[k]]
          ELSE IF last.op = "update" /\ last.status = StatusOk
          THEN [k \in DOMAIN journal |->
                   IF k = last.path
                   THEN [journal[k] EXCEPT !.done = last.body.done]
                   ELSE journal[k]]
          ELSE IF last.op = "delete" /\ last.status = StatusOk
          THEN [k \in DOMAIN journal \ {last.path} |-> journal[k]]
          ELSE journal
    /\ removed' =
          IF last.op = "delete" /\ last.status = StatusOk
          THEN removed \cup {last.path} ELSE removed
    /\ last' = NoAnswer
    /\ UNCHANGED <<store, issued, alive, taskVars>>

\* ------------------------------------------------------------- specification
NoTask ==
    [pc |-> "idle", op |-> "none", hdr |-> AbsentHeader, path |-> <<>>,
     body |-> NoBody, user_id |-> "", oid |-> 0, result |-> 0,
     failed |-> FALSE, status |-> NoResponse]

\* main: an empty collection behind a running server, nothing answered yet.
Init ==
    /\ store = <<>>
    /\ issued = 0
    /\ alive = TRUE
    /\ last = NoAnswer
    /\ journal = <<>>
    /\ removed = {}
    /\ tasks = <<>>
    /\ order = <<>>

Next ==
    \/ \E hdr \in Headers, fails \in BOOLEAN : get_todos(hdr, fails)
    \/ \E hdr \in Headers, body \in CreateBodies,
          rejection \in JsonRejectionStatuses, fails \in BOOLEAN :
          create_todo(hdr, body, rejection, fails)
    \/ \E hdr \in Headers, path \in PathIds, body \in UpdateBodies,
          rejection \in JsonRejectionStatuses, fails \in BOOLEAN :
          update_todo(hdr, path, body, rejection, fails)
    \/ \E hdr \in Headers, path \in PathIds, fails \in BOOLEAN :
          delete_todo(hdr, path, fails)
    \/ Complete

Spec == Init /\ [][Next]_vars

\* ------------------------------------------------------------- concurrent tasks
\* Each request runs as its own task; a handler is suspended only while it
\* awaits its one storage call, which the store executes atomically.
NumTasks == 2
Tasks == 1..NumTasks
TaskHeaders == {TextHeader("alice"), TextHeader("bob")}
TaskPaths == {ToHex(1)}
TaskBodies == {[done |-> TRUE], [done |-> FALSE]}

\* The collection the tasks start from: alice has created "milk".
TaskInitStore ==
    InsertOne(<<>>, NewObjectId(0), TodoWithoutId("alice", NewTodo([title |-> "milk"])))

StartTask(p, op, hdr, path, body, status) ==
    tasks' = [tasks EXCEPT ![p] =
        [pc |-> IF status = NoResponse THEN "awaiting" ELSE "done",
         op |-> op, hdr |-> hdr, path |-> path, body |-> body,
         user_id |-> FromRequestParts(hdr).user_id, oid |-> ParseStr(path).oid,
         result |-> 0, failed |-> FALSE, status |-> status]]

\* update_todo up to the await of update_one.
update_begin(p, hdr, path, body, rejection) ==
    /\ alive
    /\ tasks[p].pc = "idle"
    /\ LET user == FromRequestParts(hdr)
           payload == UpdateTodoPayload(body)
           parsed == ParseStr(path)
       IN
       IF ~user.ok THEN StartTask(p, "update", hdr, path, body, StatusUnauthorized)
       ELSE IF ~payload.ok THEN StartTask(p, "update", hdr, path, body, rejection)
       ELSE IF ~parsed.ok THEN StartTask(p, "update", hdr, path, body, StatusBadRequest)
       ELSE StartTask(p, "update", hdr, path, body, NoResponse)
    /\ UNCHANGED <<store, issued, alive, last, clientVars, order>>

\* the store executes the awaited update_one.
update_call(p, fails) ==
    /\ tasks[p].pc = "awaiting"
    /\ tasks[p].op = "update"
    /\ LET result == UpdateOne(store, tasks[p].oid, tasks[p].user_id,
                               UpdateTodoPayload(tasks[p].body).done)
       IN
       IF fails
       THEN /\ tasks' = [tasks EXCEPT ![p].pc = "returned", ![p].failed = TRUE]
            /\ UNCHANGED store
       ELSE /\ tasks' = [tasks EXCEPT ![p].pc = "returned",
                                      ![p].result = result.matched_count]
            /\ store' = result.store
    /\ order' = Append(order, p)
    /\ UNCHANGED <<issued, alive, last, clientVars>>

\* update_todo after the await: the match on the result.
update_end(p) ==
    /\ tasks[p].pc = "returned"
    /\ tasks[p].op = "update"
    /\ tasks' = [tasks EXCEPT ![p].pc = "done",
                              ![p].status =
                                  IF tasks[p].failed THEN StatusInternalServerError
                                  ELSE IF tasks[p].result = 1 THEN StatusOk
                                  ELSE StatusNotFound]
    /\ UNCHANGED <<store, issued, alive, last, clientVars, order>>

\* delete_todo up to the await of delete_one.
delete_begin(p, hdr, path) ==
    /\ alive
    /\ tasks[p].pc = "idle"
    /\ LET user == FromRequestParts(hdr)
           parsed == ParseStr(path)
       IN
       IF ~user.ok THEN StartTask(p, "delete", hdr, path, NoBody, StatusUnauthorized)
       ELSE IF ~parsed.ok THEN StartTask(p, "delete", hdr, path, NoBody, StatusBadRequest)
       ELSE StartTask(p, "delete", hdr, path, NoBody, NoResponse)
    /\ UNCHANGED <<store, issued, alive, last, clientVars, order>>

\* the store executes the awaited delete_one.
delete_call(p, fails) ==
    /\ tasks[p].pc = "awaiting"
    /\ tasks[p].op = "delete"
    /\ LET result == DeleteOne(store, tasks[p].oid, tasks[p].user_id)
       IN
       IF fails
       THEN /\ tasks' = [tasks EXCEPT ![p].pc = "returned", ![p].failed = TRUE]
            /\ UNCHANGED store
       ELSE /\ tasks' = [tasks EXCEPT ![p].pc = "returned",
                                      ![p].result = result.deleted_count]
            /\ store' = result.store
    /\ order' = Append(order, p)
    /\ UNCHANGED <<issued, alive, last, clientVars>>

\* delete_todo after the await: the match on the result.
delete_end(p) ==
    /\ tasks[p].pc = "returned"
    /\ tasks[p].op = "delete"
    /\ tasks' = [tasks EXCEPT ![p].pc = "done",
                              ![p].status =
                                  IF tasks[p].failed THEN StatusInternalServerError
                                  ELSE IF tasks[p].result = 1 THEN StatusOk
                                  ELSE StatusNotFound]
    /\ UNCHANGED <<store, issued, alive, last, clientVars, order>>

\* The server after alice's create was answered, every task yet to start.
InitTasks ==
    /\ store = TaskInitStore
    /\ issued = 1
    /\ alive = TRUE
    /\ last = NoAnswer
    /\ journal = [k \in {ToHex(NewObjectId(0))} |-> TaskInitStore[NewObjectId(0)]]
    /\ removed = {}
    /\ tasks = [p \in Tasks |-> NoTask]
    /\ order = <<>>

NextTasks ==
    \/ \E p \in Tasks, hdr \in TaskHeaders, path \in TaskPaths, body \in TaskBodies,
          rejection \in JsonRejectionStatuses :
          update_begin(p, hdr, path, body, rejection)
    \/ \E p \in Tasks, fails \in BOOLEAN : update_call(p, fails)
    \/ \E p \in Tasks : update_end(p)
    \/ \E p \in Tasks, hdr \in TaskHeaders, path \in TaskPaths :
          delete_begin(p, hdr, path)
    \/ \E p \in Tasks, fails \in BOOLEAN : delete_call(p, fails)
    \/ \E p \in Tasks : delete_end(p)

SpecTasks == InitTasks /\ [][NextTasks]_vars

\* ------------------------------------------------------------- properties
\* A step of Spec in which a handler answers a request.
Handled == last = NoAnswer /\ last' # NoAnswer

\* The request carried an identity the resolver accepts.
Identified(a) == a.hdr.present /\ a.hdr.ascii

\* The request got past the extractors into the handler's body.
Reached(a) ==
    /\ Identified(a)
    /\ a.op = "update" => "done" \in DOMAIN a.body
    /\ a.op = "create" => "title" \in DOMAIN a.body

\* A text of 24 hexadecimal characters.
IsObjectIdText(p) ==
    /\ Len(p) = ObjectIdHexLen
    /\ \A i \in 1..Len(p) :
          p[i] \in {HexChars[j] : j \in 1..16} \cup {UpperHexChars[j] : j \in 1..16}

\* The stored documents whose identifier is written k.
Stored(st, k) == {o \in DOMAIN st : ToHex(o) = k}

\* C1 (list part): a successful list returns only items of the caller, so an
\* item the journal records under another owner is never in it.
C1_ListOwnOnly ==
    (last.op = "list" /\ last.status = StatusOk) =>
        \A it \in last.items :
            /\ it.user_id = last.hdr.text
            /\ ToHex(it.id) \in DOMAIN journal =>
                   journal[ToHex(it.id)].user_id = last.hdr.text

\* C1 (mutation part): an update or delete naming an item created under
\* another owner is never answered 200, is answered 404 whenever its storage
\* call completed, and leaves that item as it was.
C1_ForeignStep ==
    (Handled /\ last'.op \in {"update", "delete"}) =>
        \A k \in DOMAIN journal :
            (last'.path = k /\ journal[k].user_id # last'.hdr.text) =>
                /\ last'.status # StatusOk
                /\ (last'.calls = 1 /\ ~last'.err) => last'.status = StatusNotFound
                /\ \A o \in Stored(store, k) :
                       o \in DOMAIN store' /\ store'[o] = store[o]

\* C1: tenant isolation over every sequence of requests: lists never show
\* another owner's item, and another owner's update or delete is answered
\* NotFound (500 if the storage call itself failed), never success, leaving
\* the item unchanged.
C1_TenantIsolation == []C1_ListOwnOnly /\ [][C1_ForeignStep]_vars

C1_Witness ==
    /\ last.op \in {"update", "delete"}
    /\ last.status = StatusNotFound
    /\ last.path \in DOMAIN journal
    /\ last.hdr.text = "bob"
    /\ journal[last.path].user_id = "alice"
    /\ Stored(store, last.path) # {}

\* C2: every request whose x-user-id header is absent or empty is answered
\* 401 with no storage call and nothing returned, and no stored item has an
\* empty owner.
C2_MissingOrEmptyIdentityRejected ==
    /\ (last.op # "none" /\ (~last.hdr.present \/ last.hdr.text = "")) =>
           /\ last.status = StatusUnauthorized
           /\ last.calls = 0
           /\ last.items = {}
    /\ \A o \in DOMAIN store : store[o].user_id # ""

\* C3: every storage failure (here: on a named caller's request) is answered
\* 500 and the service keeps running.
C3_StorageFailureIs500 ==
    (last.err /\ last.hdr.text # "") =>
        (last.status = StatusInternalServerError /\ alive)

\* C4: an update or delete whose path identifier is no ObjectId text makes
\* no storage call and leaves the store as it was, is never answered 200, and
\* is answered 400 whenever the request reached the handler (identity
\* resolved and, on update, the body deserialized).
C4_MalformedIdStep ==
    (Handled /\ last'.op \in {"update", "delete"} /\ ~IsObjectIdText(last'.path)) =>
        /\ store' = store
        /\ last'.calls = 0
        /\ last'.status # StatusOk
        /\ Reached(last') => last'.status = StatusBadRequest

\* C4: the above holds of every step of every run, whatever the store holds
\* and whoever calls.
C4_MalformedIdIsBadRequest == [][C4_MalformedIdStep]_vars

C4_Witness ==
    /\ last.op \in {"update", "delete"}
    /\ Reached(last)
    /\ ~IsObjectIdText(last.path)
    /\ last.status = StatusBadRequest
    /\ store # <<>>

\* C5 as stated, for a named owner and a non-empty title: after a create, a
\* list by the same owner (the item not deleted) holds exactly one item with
\* the submitted title, and that item has the created identifier, the owner
\* and done = false.
C5_ExactlyOneWithTitle ==
    (last.op = "list" /\ last.status = StatusOk) =>
        \A k \in DOMAIN journal :
            (journal[k].user_id = last.hdr.text /\ last.hdr.text # ""
                /\ journal[k].title # "") =>
                LET same == {it \in last.items : it.title = journal[k].title} IN
                /\ Cardinality(same) = 1
                /\ \A it \in same :
                       ToHex(it.id) = k /\ it.user_id = last.hdr.text /\ ~it.done

\* C5 amended: a create answers with one item that has a newly assigned
\* identifier, the submitted title, the caller as owner and done = false
\* whatever the body said, and that is what is stored; a later list by the
\* same owner holds, for each item created and not deleted, exactly one item
\* with that identifier, with its title and owner, and with done as last
\* acknowledged (false until an update was answered 200).
C5_CreateThenList ==
    /\ (last.op = "create" /\ last.status = StatusOk) =>
           \E it \in last.items :
               /\ last.items = {it}
               /\ it.title = last.body.title
               /\ it.user_id = last.hdr.text
               /\ it.done = FALSE
               /\ IsObjectIdText(ToHex(it.id))
               /\ ToHex(it.id) \notin DOMAIN journal \cup removed
               /\ it.id \in DOMAIN store
               /\ store[it.id] = [user_id |-> it.user_id, title |-> it.title,
                                  done |-> FALSE]
    /\ (last.op = "list" /\ last.status = StatusOk) =>
           \A k \in DOMAIN journal :
               journal[k].user_id = last.hdr.text =>
                   LET same == {it \in last.items : ToHex(it.id) = k} IN
                   /\ Cardinality(same) = 1
                   /\ \A it \in same :
                          /\ it.title = journal[k].title
                          /\ it.user_id = last.hdr.text
                          /\ it.done = journal[k].done

C5_Witness ==
    /\ last.op = "list"
    /\ last.status = StatusOk
    /\ \E a, b \in last.items : a.id # b.id /\ a.title = b.title /\ a.title # ""
    /\ \A it \in last.items : ToHex(it.id) \in DOMAIN journal

\* C6 (answer part): an update that reached the handler with an ObjectId
\* text is answered 500 if its storage call failed, 200 with the flag stored
\* if the identifier is one of the caller's items, and 404 otherwise.
C6_UpdateAnswer ==
    (last.op = "update" /\ Reached(last) /\ IsObjectIdText(last.path)) =>
        IF last.err THEN last.status = StatusInternalServerError
        ELSE IF last.path \in DOMAIN journal
                /\ journal[last.path].user_id = last.hdr.text
        THEN /\ last.status = StatusOk
             /\ Stored(store, last.path) # {}
             /\ \A o \in Stored(store, last.path) : store[o].done = last.body.done
        ELSE last.status = StatusNotFound

\* C6 (read-back part): a list shows every item with the flag of its last
\* acknowledged update.
C6_ListShowsFlag ==
    (last.op = "list" /\ last.status = StatusOk) =>
        \A it \in last.items :
            /\ ToHex(it.id) \in DOMAIN journal
            /\ it.done = journal[ToHex(it.id)].done

\* C6 (frame part): an update answered anything but 200 leaves the store
\* unchanged.
C6_NotFoundStep ==
    (Handled /\ last'.op = "update" /\ last'.status # StatusOk) => store' = store

\* C6: updating one's own existing item to any boolean answers 200 and a
\* later list shows the new value; an update matching no item of the caller
\* answers 404 and leaves the store unchanged.
C6_UpdateReadBack ==
    [](C6_UpdateAnswer /\ C6_ListShowsFlag) /\ [][C6_NotFoundStep]_vars

C6_Witness ==
    /\ last.op = "update"
    /\ last.status = StatusOk
    /\ last.path \in DOMAIN journal
    /\ journal[last.path].done = last.body.done
    /\ last.body.done

\* C7: deleting one's own existing item answers 200 and removes it; an
\* identifier whose delete was answered 200 is never stored or listed again,
\* and a later update or delete of it is never answered 200 (404 whenever
\* the request reached the handler and its storage call completed).
C7_DeleteIsFinal ==
    /\ (last.op = "delete" /\ Identified(last) /\ ~last.err
          /\ last.path \in DOMAIN journal
          /\ journal[last.path].user_id = last.hdr.text) =>
           (last.status = StatusOk /\ Stored(store, last.path) = {})
    /\ (last.op \in {"update", "delete"} /\ last.path \in removed) =>
           /\ last.status # StatusOk
           /\ (Reached(last) /\ ~last.err) => last.status = StatusNotFound
    /\ last.op = "list" => \A it \in last.items : ToHex(it.id) \notin removed
    /\ \A o \in DOMAIN store : ToHex(o) \notin removed

C7_Witness ==
    /\ last.op = "delete"
    /\ last.status = StatusNotFound
    /\ last.path \in removed
    /\ last.hdr.text = "alice"
    /\ store # <<>>

\* C8: every stored item (here: of a named owner) has a non-empty title, and
\* a create whose title is missing or empty is answered 400 and inserts
\* nothing.
C8_TitlesNonEmpty ==
    /\ \A o \in DOMAIN store : store[o].user_id # "" => store[o].title # ""
    /\ (last.op = "create" /\ Identified(last) /\ last.hdr.text # ""
          /\ ("title" \notin DOMAIN last.body \/ last.body.title = "")) =>
           (last.status = StatusBadRequest /\ last.calls = 0)

\* C9 (history part): a stored item has the title and owner it was created
\* with.
C9_SameSinceCreation ==
    \A o \in DOMAIN store :
        ToHex(o) \in DOMAIN journal =>
            /\ store[o].title = journal[ToHex(o)].title
            /\ store[o].user_id = journal[ToHex(o)].user_id

\* C9 (step part): what each handler may change in the collection.
C9_FrameStep ==
    /\ \A o \in DOMAIN store \cap DOMAIN store' :
           /\ store'[o].title = store[o].title
           /\ store'[o].user_id = store[o].user_id
    /\ ~Handled => store' = store
    /\ (Handled /\ (last'.status # StatusOk \/ last'.op = "list")) => store' = store
    /\ (Handled /\ last'.op = "create" /\ last'.status = StatusOk) =>
           \E o \in DOMAIN store' \ DOMAIN store :
               /\ DOMAIN store' = DOMAIN store \cup {o}
               /\ \A x \in DOMAIN store : store'[x] = store[x]
    /\ (Handled /\ last'.op = "update" /\ last'.status = StatusOk) =>
           \E o \in Stored(store, last'.path) :
               store' = [store EXCEPT ![o].done = last'.body.done]
    /\ (Handled /\ last'.op = "delete" /\ last'.status = StatusOk) =>
           \E o \in Stored(store, last'.path) :
               /\ DOMAIN store' = DOMAIN store \ {o}
               /\ \A x \in DOMAIN store' : store'[x] = store[x]

\* C9: an update changes only the done flag of the one matched item, list
\* changes nothing, create only adds one item, delete only removes the one
\* matched item; an item's identifier, title and owner stay what they were
\* at its creation.
C9_Frame == []C9_SameSinceCreation /\ [][C9_FrameStep]_vars

C9_Witness ==
    /\ last.op = "update"
    /\ last.status = StatusOk
    /\ Cardinality(DOMAIN store) = 2
    /\ \A o \in DOMAIN store : store[o].user_id = last.hdr.text
    /\ \E o \in DOMAIN store : store[o].done # last.body.done

\* ------------------------------------------------------------- serial reference
\* What one update or delete does to a collection when run alone.
SerialApply(st, t) ==
    IF t.failed THEN [store |-> st, status |-> StatusInternalServerError]
    ELSE IF t.oid \in DOMAIN st /\ st[t.oid].user_id = t.user_id
    THEN IF t.op = "update"
         THEN [store |-> [st EXCEPT ![t.oid].done = t.body.done],
               status |-> StatusOk]
         ELSE [store |-> [o \in DOMAIN st \ {t.oid} |-> st[o]],
               status |-> StatusOk]
    ELSE [store |-> st, status |-> StatusNotFound]

\* The collection after the first k storage calls, run one after another.
RECURSIVE SerialStore(_)
SerialStore(k) ==
    IF k = 0 THEN TaskInitStore
    ELSE SerialApply(SerialStore(k - 1), tasks[order[k]]).store

SerialStatus(k) == SerialApply(SerialStore(k - 1), tasks[order[k]]).status

AllDone == \A p \in Tasks : tasks[p].pc = "done"

\* The tasks whose call matched the item, in call order.
Matched(op) ==
    {k \in 1..Len(order) :
        tasks[order[k]].op = op /\ ~tasks[order[k]].failed
            /\ tasks[order[k]].result = 1}

\* C10: under every interleaving of update and delete tasks the collection
\* and every answer are those of the tasks run one after another in the
\* order of their storage calls; at most one delete of the item is answered
\* 200, and once all are answered exactly one if any owner's delete call
\* completed, the others 404; after a matched delete the item is gone for
\* good and an item that is present has its title and owner; the flag of a
\* present item is that of the last matched update.
C10_Serializable ==
    /\ store = SerialStore(Len(order))
    /\ \A k \in 1..Len(order) :
           tasks[order[k]].pc = "done" => tasks[order[k]].status = SerialStatus(k)
    /\ LET wins == {p \in Tasks : tasks[p].op = "delete" /\ tasks[p].pc = "done"
                                    /\ tasks[p].status = StatusOk}
           tried == {p \in Tasks : tasks[p].op = "delete" /\ ~tasks[p].failed
                                     /\ tasks[p].user_id = "alice"}
       IN
       /\ Cardinality(wins) <= 1
       /\ (AllDone /\ tried # {}) =>
              /\ Cardinality(wins) = 1
              /\ \A p \in tried \ wins : tasks[p].status = StatusNotFound
    /\ Matched("delete") # {} => store = <<>>
    /\ \A o \in DOMAIN store :
           /\ o \in DOMAIN TaskInitStore
           /\ store[o].title = TaskInitStore[o].title
           /\ store[o].user_id = TaskInitStore[o].user_id
           /\ store[o].done =
                  IF Matched("update") = {} THEN TaskInitStore[o].done
                  ELSE LET k == CHOOSE k \in Matched("update") :
                                    \A j \in Matched("update") : j <= k
                       IN tasks[order[k]].body.done

\* Two tasks in flight at once: a delete that matched and an update that
\* was executed after it, neither answered yet.
C10_Witness ==
    \E p, q \in Tasks :
        /\ tasks[p].pc = "returned" /\ tasks[p].op = "delete" /\ tasks[p].result = 1
        /\ tasks[q].pc = "returned" /\ tasks[q].op = "update" /\ tasks[q].result = 0
        /\ ~tasks[q].failed /\ tasks[q].user_id = "alice"
        /\ order = <<p, q>>

====
